---- MODULE Spec2Model ----
(***************************************************************************)
(* Model of the incremental build-and-watch engine (incrementalBuild) and  *)
(* of the dev server built on it (esbdServe).                              *)
(*                                                                         *)
(* JavaScript is single-threaded: every action below is one run-to-        *)
(* completion turn of the event loop, i.e. the code between two awaits     *)
(* (together with the micro-task continuations that follow it at once).    *)
(* A call of triggerBuild is a process of its own; calls are numbered in   *)
(* the order they are made and the number identifies the generation the    *)
(* call produces.                                                          *)
(*                                                                         *)
(* The two chokidar watchers are modelled by what the calls made on them   *)
(* do: close() on an open watcher removes all listeners and all watched    *)
(* paths and marks it closed, close() on a closed watcher does nothing,    *)
(* add() re-opens the watcher and watches the paths, unwatch() drops       *)
(* paths, once() registers a listener that the next event consumes, and a  *)
(* watcher emits events only for paths it watches while it is open.        *)
(* close() returns a promise; the promise of a watcher that had paths to   *)
(* release may reject, and close() on a closed watcher returns the promise *)
(* of the close() that closed it.                                          *)
(*                                                                         *)
(* The module also models the result cache of the sass plugin (plugin.ts): *)
(* lookups of one key that may overlap, each a process of its own, over    *)
(* files whose modification times move while the lookups run.              *)
(***************************************************************************)
EXTENDS Integers, Sequences, FiniteSets, TLC

\* ------------------------------------------------------------------ bounds
\* number of triggerBuild calls followed (the initial one included)
MaxCalls == 3
Calls == 1..MaxCalls
\* number of cache lookups followed
MaxLookups == 3
Lookups == 1..MaxLookups
\* the latest modification time a file gets
MaxTime == 2

\* ------------------------------------------------------- paths as strings
\* A path is a sequence of characters; positions are 0-based as in JS.
NodeModules == <<"n","o","d","e","_","m","o","d","u","l","e","s">>

CharAt(s, i) == s[i + 1]

\* s.indexOf(sub, from): least position >= from where sub occurs, else -1
IndexOfFrom(s, sub, from) ==
  LET hits == { i \in from..(Len(s) - Len(sub)) :
                  \A j \in 0..(Len(sub) - 1) : CharAt(s, i + j) = CharAt(sub, j) }
  IN IF hits = {} THEN -1 ELSE CHOOSE i \in hits : \A h \in hits : i <= h

IndexOf(s, sub) == IndexOfFrom(s, sub, 0)

\* s.slice(0, n)
SliceTo(s, n) == SubSeq(s, 1, n)

\* inputKey.split(':')[1]: the text between the first and the second colon
SplitSecond(s) ==
  LET c1 == IndexOf(s, <<":">>)
      c2 == IndexOfFrom(s, <<":">>, c1 + 1)
  IN IF c2 < 0 THEN SubSeq(s, c1 + 2, Len(s)) ELSE SubSeq(s, c1 + 2, c2)

\* const input = inputKey.includes(':') ? inputKey.split(':')[1] : inputKey
StripScheme(inputKey) ==
  IF IndexOf(inputKey, <<":">>) >= 0 THEN SplitSecond(inputKey) ELSE inputKey

IsDependency(input) == IndexOf(input, NodeModules) >= 0

\* input.indexOf('/', index + 'node_modules'.length + 1)
ModIndex(input) ==
  IndexOfFrom(input, <<"/">>, IndexOf(input, NodeModules) + Len(NodeModules) + 1)

\* the inputs of the metafiles the bundler may return
PathA == <<"a">>
PathB == <<"s", ":", "b">>
PathPX == NodeModules \o <<"/", "p", "/", "x">>
PathPY == NodeModules \o <<"/", "p", "/", "y", "/", "z">>
PathRX == <<".", ".", "/">> \o NodeModules \o <<"/", "r", "/", "x">>
PathQ == NodeModules \o <<"/", "q">>

Manifests == { {PathA, PathPX, PathPY}, {PathB, PathRX, PathQ} }

\* the files one successful generation writes: an output buffer and the
\* regenerated HTML template
Files == {"out.js", "index.html"}

\* ------------------------------------------------------------------- state
VARIABLES
  running,        \* let running
  rebuild,        \* let rebuild: 0 is () => build(options), k the handle of generation k
  watchedInputs,  \* const watchedInputs = new Set<string>()
  watchedModules, \* const watchedModules = new Set<string>()
  inW,            \* inputWatcher: [closed, listeners, targets, closeErr]
  modW,           \* moduleWatcher: [closed, listeners, targets, closeErr]
  timers,         \* pending setTimeout callbacks of startWatchers
  hooks,          \* pending onWatchEvent(...).then(triggerBuild) chains
  nCalls,         \* number of triggerBuild calls made so far
  pc,             \* position of every triggerBuild call
  late,           \* the call is a public one made while running was already true
  meta,           \* metafile.inputs of the result that was installed last
  errs,           \* whether result.errors is non-empty
  pendingWrites,  \* writes of the post-build hook that have not finished
  written,        \* files the running hook of the call has written to disk
  notified,       \* the last notify() call: the generation (0: none) and its message
  livereload,     \* the livereload option of esbdServe
  req,            \* a request: "none", "waiting" (in context.wait()) or "released"
  seen,           \* the calls in flight when the waiting request arrived
  lastEnd,        \* how the build that settled last ended
  ret,            \* the value the call that settled last resolved with
  disp,           \* position of the dispose() call
  released,       \* the handle rebuild.dispose() was called on (0: none)
  missed,         \* a file changed that no bundler invocation has read since
  armTriggers,    \* rebuilds triggered by watch events since the last arming
  mtime,          \* plugin.ts: the modification time of every stylesheet
  layout,         \* the files a render of the root stylesheet includes now
  objs,           \* the cache entries created so far, by the lookup that made them
  slot,           \* group.get(args.path): the entry in the map (0: none)
  lk,             \* the state of every lookup; base, calls and wrote record
                  \* the artifact it found, its transform calls, its writes
  nLookups,       \* lookups started so far
  nTransforms,    \* calls of transform so far
  site,           \* esbd-serve.ts: the servedir and rewrite options and the
                  \* files in the output directory and below servedir
  rq              \* the request the server resolves: [method, path, stage,
                  \* tried, from, status]

vars == << running, rebuild, watchedInputs, watchedModules, inW, modW, timers,
           hooks, nCalls, pc, late, meta, errs, pendingWrites, written,
           notified, livereload, req, seen, lastEnd, ret, disp, released,
           missed, armTriggers, mtime, layout, objs, slot, lk, nLookups,
           nTransforms, site, rq >>

ctrlVars == << running, rebuild, watchedInputs, watchedModules, inW, modW,
               timers, hooks >>
callVars == << nCalls, pc, late, meta, errs >>
hookVars == << pendingWrites, written, notified >>
reqVars == << req, seen >>
endVars == << lastEnd, ret >>
\* what triggerBuild and the watchers never write: the options and the state
\* of dispose()
restVars == << livereload, disp, released, mtime, layout, objs, slot, lk,
              nLookups, nTransforms, site, rq >>
\* the state of the incremental build and of the dev server
buildVars == << ctrlVars, callVars, hookVars, reqVars, endVars, livereload,
               disp, released, missed, armTriggers >>
\* the state of the sass plugin's cache and of the files it reads
cacheVars == << mtime, layout, objs, slot, lk, nLookups, nTransforms >>
\* the state of the server's request handler
siteVars == << site, rq >>

\* ---------------------------------------------------------------- watchers
\* watch([], {...})
NewWatcher ==
  [closed |-> FALSE, listeners |-> 0, targets |-> {}, closeErr |-> FALSE]

\* watcher.close(): nothing when already closed, else all listeners and all
\* watched paths are dropped; closeErr: the promise close() returns rejects
\* (fails: releasing the watched paths fails)
Close(w, fails) ==
  IF w.closed
    THEN w
    ELSE [closed |-> TRUE, listeners |-> 0, targets |-> {},
          closeErr |-> fails /\ w.targets # {}]

\* watcher.unwatch(paths)
Unwatch(w, paths) ==
  IF w.closed THEN w ELSE [w EXCEPT !.targets = w.targets \ paths]

\* watcher.add(paths): re-opens the watcher; the promise of the last close()
\* is not read again
Add(w, paths) ==
  [w EXCEPT !.closed = FALSE, !.targets = w.targets \cup paths,
            !.closeErr = FALSE]

\* watcher.once(event, listener)
Once(w) == [w EXCEPT !.listeners = w.listeners + 1]

\* the watcher emits an event for path p
Emits(w, p) == ~w.closed /\ p \in w.targets

\* ------------------------------------------------- triggerBuild, pure parts
\* lines 117-135: the leaf targets found in the metafile inputs
AddedInputs(inputs, watched) ==
  { StripScheme(k) : k \in { i \in inputs : ~IsDependency(StripScheme(i)) } }
    \ watched

\* lines 117-135: the package targets found in the metafile inputs
AddedModules(inputs, watched) ==
  { SliceTo(StripScheme(k), ModIndex(StripScheme(k))) :
      k \in { i \in inputs : /\ IsDependency(StripScheme(i))
                             /\ ModIndex(StripScheme(i)) > 0 } }
    \ watched

\* lines 137-142
Removed(watched, added) == { t \in watched : t \notin added }

\* lines 144, 147 and 145, 148
Rewatch(w, watched, added) == Add(Unwatch(w, Removed(watched, added)), added)

\* evt.emit('end'): every wait() promise resolves
EmitEnd(r) == IF r = "waiting" THEN "released" ELSE r

\* the handlers onInputEvent / onModuleEvent, run once per armed listener
HandlerStarts(isRunning, listeners) == IF isRunning THEN 0 ELSE listeners

\* the timer callback of startWatchers
TimerArms(isRunning) == ~isRunning

\* lines 39-44
NULL_RESULT ==
  [errors |-> {}, warnings |-> {}, inputs |-> {}, outputFiles |-> {}]

\* line 109: { ...NULL_RESULT, rebuild }
CatchReturns(handle) ==
  [errors |-> NULL_RESULT.errors, warnings |-> NULL_RESULT.warnings,
   inputs |-> NULL_RESULT.inputs, outputFiles |-> NULL_RESULT.outputFiles,
   rebuild |-> handle]

\* line 102: the result of the bundler invocation of call k, either without
\* errors (one warning, one output file) or with one error
BuildResult(k, hasErrors, inputs) ==
  [errors |-> IF hasErrors THEN {"error"} ELSE {},
   warnings |-> IF hasErrors THEN {} ELSE {"warning"},
   inputs |-> inputs,
   outputFiles |-> IF hasErrors THEN {} ELSE {"out.js"},
   rebuild |-> k]

\* the position of a call that awaits the promise of close()
AwaitClose(w, ok, err) == IF w.closeErr THEN err ELSE ok

\* esbd-serve.ts line 171: messageBuilder(result) for the result of call k
Message(k, hasErrors) == [gen |-> k, errors |-> hasErrors]

\* a hook that writes the output whatever the result
WritesOutput_Always(hasErrors) == TRUE

\* esbd-serve.ts line 149: if (!result.errors?.length)
WritesOutput(hasErrors) == ~hasErrors

\* a hook that goes on as soon as one of its writes has finished
WritesSettled_AnyDone(pending) == TRUE

\* Promise.all([...writes]) of the post-build hook has resolved
WritesSettled(pending) == pending = {}

InHook == {"parse", "write", "message"}
InFlight(k) == pc[k] \in {"bundling"} \cup InHook

\* an incrementalBuild that returns without awaiting the first build
Returned_AtOnce == TRUE

\* lines 172-175: incrementalBuild has returned to its caller
Returned == pc[1] = "done"

\* ------------------------------------------------- sass plugin, pure parts
\* the stylesheets: the root A and two files it may import
Sheets == {"A", "B", "C"}

\* stats.includedFiles of a render of the root (plugin.ts lines 103-113):
\* the root comes first, the file it imports follows
Layouts == { << "A", "B" >>, << "A", "C" >> }

\* the time a file modified now gets
Now == CHOOSE t \in 0..MaxTime :
         /\ \E f \in Sheets : mtime[f] = t
         /\ \A f \in Sheets : mtime[f] <= t

NoArtifact == [id |-> 0, root |-> "", watchFiles |-> << >>, read |-> << >>]
NoEntry == [mtimeMs |-> 0, result |-> NoArtifact]
IdleLookup ==
  [pc |-> "idle", held |-> 0, base |-> 0, watchFiles |-> << >>,
   stats |-> << >>, res |-> NoArtifact, out |-> NoArtifact, calls |-> 0,
   wrote |-> FALSE]

\* plugin.ts lines 122-124: the mtimeMs of the files, in their order
CollectStats(watchFiles) ==
  [i \in 1..Len(watchFiles) |-> mtime[watchFiles[i]]]

RECURSIVE ReduceMax(_, _, _)
ReduceMax(stats, i, max) ==
  IF i > Len(stats)
    THEN max
    ELSE ReduceMax(stats, i + 1, IF stats[i] > max THEN stats[i] ELSE max)

\* a freshness mark taken from the first file only
MaxMtimeMs_First(stats) == IF Len(stats) = 0 THEN 0 ELSE stats[1]

\* plugin.ts lines 126-128: stats.reduce((max, {mtimeMs}) => Math.max(...), 0)
MaxMtimeMs(stats) == ReduceMax(stats, 1, 0)

\* plugin.ts lines 163-164: some file is newer than the freshness mark
Stale(stats, mark) == \E i \in 1..Len(stats) : stats[i] > mark

\* plugin.ts lines 188-204: transform(path, type), the n-th call of it. The
\* files are read when it is called; read keeps the modification times of
\* the contents the artifact was computed from
Transform(path, n) ==
  LET files == IF path = "A" THEN layout ELSE << path >>
  IN [id |-> n, root |-> path, watchFiles |-> files,
      read |-> CollectStats(files)]

\* the lookup has changed the cache in this step
Wrote(l) == lk[l].wrote \/ objs' # objs \/ slot' # slot

\* ------------------------------------------------ dev server, pure parts
\* the URL paths a request may ask for; the last one is an endpoint of the
\* livereload handler
UrlPaths == {"/a", "/b", "/esbuild"}
Methods == {"GET", "POST"}

\* the options and the files the server may run with: esbd-serve.ts lines
\* 177-178, a servedir is optional
Sites ==
  { c \in [servedir : BOOLEAN, rewrite : BOOLEAN,
            outFiles : SUBSET {"/a", "/b"}, serveFiles : SUBSET {"/a", "/b"}] :
      ~c.servedir => c.serveFiles = {} }

NoRequest ==
  [method |-> "", path |-> "", stage |-> "none", tried |-> << >>,
   from |-> "", status |-> 0]

\* esbd-serve.ts line 216: lrHandler?.(req, res) ?? false
LrHandled(hasLivereload, path) == hasLivereload /\ path = "/esbuild"

\* a static handler that asks the output directory only
StaticHandler_OutputOnly(hasServedir) == "outdir"

\* esbd-serve.ts lines 180-182: the handler staticHandler calls first
StaticHandler(hasServedir) == IF hasServedir THEN "servedir" ELSE "outdir"

\* serve-static: only GET and HEAD requests are looked up
Readable(method) == method \in {"GET", "HEAD"}

\* esbd-serve.ts lines 201-213: the callback handed to staticHandler
Fallback(rewrite) ==
  IF rewrite THEN [from |-> "index", status |-> 200]
             ELSE [from |-> "notfound", status |-> 404]

\* -------------------------------------------------------------------- Init
InitBuild ==
  /\ running = TRUE
  /\ rebuild = 0
  /\ watchedInputs = {}
  /\ watchedModules = {}
  /\ inW = Close(NewWatcher, FALSE)
  /\ modW = NewWatcher
  /\ timers = 0
  /\ hooks = 0
  /\ nCalls = 1
  /\ pc = [k \in Calls |-> IF k = 1 THEN "closeInput" ELSE "idle"]
  /\ late = [k \in Calls |-> FALSE]
  /\ meta = {}
  /\ errs = [k \in Calls |-> FALSE]
  /\ pendingWrites = [k \in Calls |-> {}]
  /\ written = [k \in Calls |-> {}]
  /\ notified = [gen |-> 0, errors |-> FALSE]
  /\ livereload \in BOOLEAN
  /\ req = "none"
  /\ seen = {}
  /\ lastEnd = "none"
  /\ ret = << >>
  /\ disp = "none"
  /\ released = 0
  /\ missed = FALSE
  /\ armTriggers = 0
  /\ mtime = [f \in Sheets |-> 0]
  /\ layout = << "A", "B" >>
  /\ objs = [l \in Lookups |-> NoEntry]
  /\ slot = 0
  /\ lk = [l \in Lookups |-> IdleLookup]
  /\ nLookups = 0
  /\ nTransforms = 0

\* no server is listening yet
Init ==
  /\ InitBuild
  /\ site = [servedir |-> FALSE, rewrite |-> FALSE, outFiles |-> {},
             serveFiles |-> {}]
  /\ rq = NoRequest

\* ----------------------------------------------------------- triggerBuild
\* lines 95-97: running = true; await inputWatcher.close()
StartCall(isPublic, fails) ==
  /\ nCalls < MaxCalls
  /\ nCalls' = nCalls + 1
  /\ inW' = Close(inW, fails)
  /\ pc' = [pc EXCEPT
              ![nCalls + 1] = AwaitClose(inW', "closeInput", "closeInputErr")]
  /\ late' = [late EXCEPT ![nCalls + 1] = isPublic /\ running]
  /\ running' = TRUE
  /\ UNCHANGED << rebuild, watchedInputs, watchedModules, modW, timers, meta,
                  errs, hookVars, restVars, reqVars, endVars, missed >>

\* line 175: the caller of incrementalBuild calls the returned rebuild()
PublicTrigger ==
  /\ Returned
  /\ StartCall(TRUE, FALSE)
  /\ UNCHANGED << hooks, armTriggers >>

\* line 98: await moduleWatcher.close()
CloseInputDone(k, fails) ==
  /\ pc[k] = "closeInput"
  /\ modW' = Close(modW, fails)
  /\ pc' = [pc EXCEPT ![k] = AwaitClose(modW', "closeModule", "closeModuleErr")]
  /\ UNCHANGED << running, rebuild, watchedInputs, watchedModules, inW, timers,
                  hooks, nCalls, late, meta, errs, hookVars, restVars,
                  reqVars, endVars, missed, armTriggers >>

\* lines 97-98: the promise of close() rejects and so does triggerBuild:
\* nothing after the await runs
CloseFail(k) ==
  /\ pc[k] \in {"closeInputErr", "closeModuleErr"}
  /\ pc' = [pc EXCEPT ![k] = "rejected"]
  /\ late' = [late EXCEPT ![k] = FALSE]
  /\ UNCHANGED << ctrlVars, nCalls, meta, errs, hookVars, restVars, reqVars,
                  endVars, missed, armTriggers >>

\* line 102: result = await rebuild()
CloseModuleDone(k) ==
  /\ pc[k] = "closeModule"
  /\ pc' = [pc EXCEPT ![k] = "bundling"]
  /\ missed' = FALSE
  /\ UNCHANGED << ctrlVars, nCalls, late, meta, errs, hookVars, restVars,
                  reqVars, endVars, armTriggers >>

\* the hook is running: the call waits in line 104
InHookAt(k, where, hasErrors) ==
  /\ pc' = [pc EXCEPT ![k] = where]
  /\ errs' = [errs EXCEPT ![k] = hasErrors]
  /\ UNCHANGED << ctrlVars, nCalls, late, meta, restVars, reqVars, endVars,
                  missed, armTriggers >>

\* what every way of settling does: evt.emit('end'); running = false;
\* startWatchers(); return
Settle(k, how) ==
  /\ pc' = [pc EXCEPT ![k] = "done"]
  /\ req' = EmitEnd(req)
  /\ seen' = {}
  /\ running' = FALSE
  /\ timers' = timers + 1
  /\ lastEnd' = how
  /\ late' = [late EXCEPT ![k] = FALSE]
  /\ errs' = [errs EXCEPT ![k] = FALSE]
  /\ written' = [written EXCEPT ![k] = {}]
  /\ UNCHANGED << watchedInputs, watchedModules, hooks, nCalls, restVars,
                  missed, armTriggers >>

\* a catch block that forgets the incremental handle
Catch_FullRebuild(k) ==
  /\ Settle(k, "fail")
  /\ ret' = << CatchReturns(rebuild) >>
  /\ rebuild' = 0
  /\ UNCHANGED << inW, modW, meta >>

\* lines 105-109: the catch block
Catch(k) ==
  /\ Settle(k, "fail")
  /\ ret' = << CatchReturns(rebuild) >>
  /\ UNCHANGED << rebuild, inW, modW, meta >>

\* lines 112-156: the watch set is brought up to date and the call returns
\* its result. The metafile of the result is read here and nowhere before,
\* so its inputs are drawn here.
Finish(k, hasErrors) ==
  \E inputs \in Manifests :
    /\ Settle(k, "ok")
    /\ ret' = << BuildResult(k, hasErrors, inputs) >>
    /\ inW' = Rewatch(inW, watchedInputs, AddedInputs(inputs, watchedInputs))
    /\ modW' = Rewatch(modW, watchedModules, AddedModules(inputs, watchedModules))
    /\ rebuild' = k
    /\ meta' = inputs

\* lines 102-104: the bundler returns a result; onBuildResult is called
\* (esbd-serve.ts lines 148-153 and 170)
BundlerOk(k, hasErrors) ==
  /\ pc[k] = "bundling"
  /\ UNCHANGED << pendingWrites, notified >>
  /\ IF WritesOutput(hasErrors)
       THEN InHookAt(k, "parse", hasErrors) /\ UNCHANGED written
       ELSE IF livereload
              THEN InHookAt(k, "message", hasErrors) /\ UNCHANGED written
              ELSE Finish(k, hasErrors)

\* line 102: rebuild() rejects
BundlerThrow(k) ==
  /\ pc[k] = "bundling"
  /\ Catch(k)
  /\ UNCHANGED << pendingWrites, notified >>

\* esbd-serve.ts line 153: getHtmlBuildOptions resolves and the writes start
ParseDone(k) ==
  /\ pc[k] = "parse"
  /\ pendingWrites' = [pendingWrites EXCEPT ![k] = Files]
  /\ InHookAt(k, "write", errs[k])
  /\ UNCHANGED << written, notified >>

\* esbd-serve.ts lines 153 and 171: getHtmlBuildOptions or messageBuilder
\* rejects, and so does the hook
HookFail(k) ==
  /\ pc[k] \in {"parse", "message"}
  /\ Catch(k)
  /\ UNCHANGED << pendingWrites, notified >>

\* esbd-serve.ts lines 155-167: one write finishes; after the last one the
\* hook goes on
WriteDone(k, f) ==
  /\ f \in pendingWrites[k]
  /\ pendingWrites' = [pendingWrites EXCEPT ![k] = @ \ {f}]
  /\ UNCHANGED notified
  /\ IF pc[k] = "write"
       THEN IF WritesSettled(pendingWrites'[k])
              THEN IF livereload
                     THEN /\ InHookAt(k, "message", errs[k])
                          /\ written' = [written EXCEPT ![k] = @ \cup {f}]
                     ELSE Finish(k, errs[k])
              ELSE /\ written' = [written EXCEPT ![k] = @ \cup {f}]
                   /\ UNCHANGED << ctrlVars, callVars, restVars, reqVars,
                                   endVars, missed, armTriggers >>
       ELSE UNCHANGED << ctrlVars, callVars, written, restVars, reqVars,
                         endVars, missed, armTriggers >>

\* esbd-serve.ts lines 155-167: one write fails, Promise.all rejects and so
\* does the hook; the other writes go on
WriteFail(k, f) ==
  /\ pc[k] = "write"
  /\ f \in pendingWrites[k]
  /\ pendingWrites' = [pendingWrites EXCEPT ![k] = @ \ {f}]
  /\ Catch(k)
  /\ UNCHANGED notified

\* esbd-serve.ts lines 171-172: the message is built, notify() is called,
\* the hook returns
MessageDone(k) ==
  /\ pc[k] = "message"
  /\ notified' = Message(k, errs[k])
  /\ Finish(k, errs[k])
  /\ UNCHANGED pendingWrites

\* ---------------------------------------------------------------- watchers
\* lines 88-92: the timer of startWatchers fires
TimerFire ==
  /\ timers > 0
  /\ timers' = timers - 1
  /\ IF TimerArms(running)
       THEN /\ inW' = Once(inW)
            /\ modW' = Once(modW)
            /\ armTriggers' = 0
       ELSE UNCHANGED << inW, modW, armTriggers >>
  /\ UNCHANGED << running, rebuild, watchedInputs, watchedModules, hooks,
                  callVars, hookVars, restVars, reqVars, endVars, missed >>

\* lines 73-78: inputWatcher emits 'all' for p; every listener armed with
\* once() runs onInputEvent and is gone
InputEvent(p) ==
  /\ Emits(inW, p)
  /\ inW.listeners > 0
  /\ inW' = [inW EXCEPT !.listeners = 0]
  /\ hooks' = hooks + HandlerStarts(running, inW.listeners)
  /\ UNCHANGED << running, rebuild, watchedInputs, watchedModules, modW, timers,
                  callVars, hookVars, restVars, reqVars, endVars, missed,
                  armTriggers >>

\* lines 80-85: moduleWatcher emits 'change' for a path below m
ModuleEvent(m) ==
  /\ Emits(modW, m)
  /\ modW.listeners > 0
  /\ modW' = [modW EXCEPT !.listeners = 0]
  /\ hooks' = hooks + HandlerStarts(running, modW.listeners)
  /\ UNCHANGED << running, rebuild, watchedInputs, watchedModules, inW, timers,
                  callVars, hookVars, restVars, reqVars, endVars, missed,
                  armTriggers >>

\* lines 75-76 and 82-83: onWatchEvent resolves, then(triggerBuild) runs
HookResolve(fails) ==
  /\ hooks > 0
  /\ hooks' = hooks - 1
  /\ armTriggers' = armTriggers + 1
  /\ StartCall(FALSE, fails)

\* lines 77 and 84: onWatchEvent throws or rejects, the error is logged
HookReject ==
  /\ hooks > 0
  /\ hooks' = hooks - 1
  /\ UNCHANGED << running, rebuild, watchedInputs, watchedModules, inW, modW,
                  timers, callVars, hookVars, restVars, reqVars, endVars,
                  missed, armTriggers >>

\* a file of the current generation changes while the bundler or the hook
\* runs and both watchers are closed: no watcher reports it
ChangeWhileBuilding ==
  /\ rebuild # 0
  /\ running
  /\ inW.closed /\ modW.closed
  /\ \E k \in Calls : InFlight(k)
  /\ missed' = TRUE
  /\ UNCHANGED << ctrlVars, callVars, hookVars, restVars, reqVars, endVars,
                  armTriggers >>

\* -------------------------------------------------------------- dev server
\* lines 165-170 and esbd-serve.ts line 190: a request arrives and awaits
\* context.wait()
Arrive ==
  /\ Returned
  /\ req = "none"
  /\ req' = IF running THEN "waiting" ELSE "released"
  /\ seen' = IF running THEN { k \in Calls : InFlight(k) } ELSE {}
  /\ UNCHANGED << ctrlVars, callVars, hookVars, restVars, endVars, missed,
                  armTriggers >>

\* esbd-serve.ts lines 192-213: the request is resolved against the files
Serve ==
  /\ req = "released"
  /\ req' = "none"
  /\ UNCHANGED seen
  /\ UNCHANGED << ctrlVars, callVars, hookVars, restVars, endVars, missed,
                  armTriggers >>

\* ----------------------------------------------------------------- dispose
\* lines 159-161: rebuild.dispose(); await inputWatcher.close(). The rebuild
\* of line 51 is a plain function: calling its dispose throws
DisposeCall(fails) ==
  /\ Returned
  /\ disp = "none"
  /\ IF rebuild = 0
       THEN /\ disp' = "rejected"
            /\ UNCHANGED << released, inW >>
       ELSE /\ released' = rebuild
            /\ inW' = Close(inW, fails)
            /\ disp' = AwaitClose(inW', "closeInput", "closeInputErr")
  /\ UNCHANGED << running, rebuild, watchedInputs, watchedModules, modW, timers,
                  hooks, callVars, hookVars, livereload, reqVars, endVars,
                  missed, armTriggers, cacheVars,
                  siteVars >>

\* line 162: await moduleWatcher.close()
DisposeInputClosed(fails) ==
  /\ disp = "closeInput"
  /\ modW' = Close(modW, fails)
  /\ disp' = AwaitClose(modW', "closeModule", "closeModuleErr")
  /\ UNCHANGED << running, rebuild, watchedInputs, watchedModules, inW, timers,
                  hooks, callVars, hookVars, livereload, released, reqVars,
                  endVars, missed, armTriggers, cacheVars,
                  siteVars >>

\* lines 161-162: the promise of close() rejects and so does dispose()
DisposeFail ==
  /\ disp \in {"closeInputErr", "closeModuleErr"}
  /\ disp' = "rejected"
  /\ UNCHANGED << ctrlVars, callVars, hookVars, livereload, released, reqVars,
                  endVars, missed, armTriggers, cacheVars,
                  siteVars >>

\* line 163: dispose() resolves
DisposeDone ==
  /\ disp = "closeModule"
  /\ disp' = "done"
  /\ UNCHANGED << ctrlVars, callVars, hookVars, livereload, released, reqVars,
                  endVars, missed, armTriggers, cacheVars,
                  siteVars >>

\* --------------------------------------------- dev server: the requests
\* esbd-serve.ts lines 185-190 and 216-218: a request arrives; the
\* livereload handler takes its own, the others await context.wait()
Request(m, p) ==
  /\ Returned
  /\ rq.stage = "none"
  /\ rq' = IF LrHandled(livereload, p)
             THEN [NoRequest EXCEPT !.method = m, !.path = p, !.stage = "sent",
                                    !.from = "livereload", !.status = 200]
             ELSE [NoRequest EXCEPT !.method = m, !.path = p, !.stage = "wait"]
  /\ UNCHANGED << buildVars, cacheVars, site >>

\* esbd-serve.ts lines 190-201 and part_000 lines 165-170: wait() resolves
\* and staticHandler is called
WaitDone ==
  /\ rq.stage = "wait"
  /\ ~running
  /\ rq' = [rq EXCEPT !.stage = StaticHandler(site.servedir)]
  /\ UNCHANGED << buildVars, cacheVars, site >>

\* esbd-serve.ts lines 178 and 181: serveStatic(servedir, { fallthrough:
\* true }) sends the file or calls next()
ServedirLookup ==
  /\ rq.stage = "servedir"
  /\ rq' = IF Readable(rq.method) /\ rq.path \in site.serveFiles
             THEN [rq EXCEPT !.stage = "sent", !.from = "servedir",
                             !.status = 200]
             ELSE [rq EXCEPT !.stage = "outdir",
                             !.tried = Append(@, "servedir")]
  /\ UNCHANGED << buildVars, cacheVars, site >>

\* esbd-serve.ts lines 177 and 181-182: serveStatic(absOutDir, {
\* fallthrough: false }) refuses other methods, sends the file, or calls
\* next(err), the callback of lines 201-213
OutdirLookup ==
  /\ rq.stage = "outdir"
  /\ rq' = IF ~Readable(rq.method)
             THEN [rq EXCEPT !.stage = "sent", !.from = "outdir",
                             !.status = 405]
             ELSE IF rq.path \in site.outFiles
                    THEN [rq EXCEPT !.stage = "sent", !.from = "outdir",
                                    !.status = 200]
                    ELSE [rq EXCEPT !.stage = "sent",
                                    !.tried = Append(@, "outdir"),
                                    !.from = Fallback(site.rewrite).from,
                                    !.status = Fallback(site.rewrite).status]
  /\ UNCHANGED << buildVars, cacheVars, site >>

\* the response has gone out
EndRequest ==
  /\ rq.stage = "sent"
  /\ rq' = NoRequest
  /\ UNCHANGED << buildVars, cacheVars, site >>

\* ------------------------------------------------- sass plugin: the cache
\* plugin.ts lines 154-162 and 172-174: a lookup starts. A hit goes on to
\* stat the files of the entry, a miss calls transform
Begin(l) ==
  /\ l = nLookups + 1
  /\ nLookups' = l
  /\ IF slot # 0
       THEN /\ lk' = [lk EXCEPT ![l] =
                       [IdleLookup EXCEPT
                          !.pc = "stat", !.held = slot,
                          !.base = objs[slot].result.id,
                          !.watchFiles = objs[slot].result.watchFiles]]
            /\ UNCHANGED nTransforms
       ELSE /\ lk' = [lk EXCEPT ![l] =
                       [IdleLookup EXCEPT
                          !.pc = "transform", !.calls = 1,
                          !.res = Transform("A", nTransforms + 1)]]
            /\ nTransforms' = nTransforms + 1
  /\ UNCHANGED << buildVars, siteVars, mtime, layout, objs, slot >>

\* plugin.ts lines 162-170: the stats arrive; a stale entry is recomputed
\* from its first file, a fresh one is returned
StatDone(l) ==
  /\ lk[l].pc = "stat"
  /\ LET stats == CollectStats(lk[l].watchFiles)
         cached == objs[lk[l].held]
     IN IF Stale(stats, cached.mtimeMs)
          THEN /\ lk' = [lk EXCEPT
                          ![l].pc = "retransform", ![l].stats = stats,
                          ![l].calls = @ + 1,
                          ![l].res = Transform(lk[l].watchFiles[1],
                                               nTransforms + 1)]
               /\ nTransforms' = nTransforms + 1
          ELSE /\ lk' = [lk EXCEPT
                          ![l].pc = "done", ![l].out = cached.result,
                          ![l].watchFiles = << >>, ![l].base = 0]
               /\ UNCHANGED nTransforms
  /\ UNCHANGED << buildVars, siteVars, mtime, layout, objs, slot, nLookups >>

\* a recomputation that installs its result and leaves the mark to a later
\* turn
RetransformDone_ResultOnly(l) ==
  /\ lk[l].pc = "retransform"
  /\ objs' = [objs EXCEPT ![lk[l].held].result = lk[l].res]
  /\ UNCHANGED slot
  /\ lk' = [lk EXCEPT
              ![l].pc = "done", ![l].out = lk[l].res, ![l].res = NoArtifact,
              ![l].watchFiles = << >>, ![l].stats = << >>, ![l].base = 0,
              ![l].wrote = Wrote(l)]
  /\ UNCHANGED << buildVars, siteVars, mtime, layout, nLookups, nTransforms >>

\* plugin.ts lines 165-170: the recomputation resolves; the entry takes the
\* new result and the mark of the stats collected before it
RetransformDone(l) ==
  /\ lk[l].pc = "retransform"
  /\ objs' = [objs EXCEPT ![lk[l].held] =
                [mtimeMs |-> MaxMtimeMs(lk[l].stats), result |-> lk[l].res]]
  /\ UNCHANGED slot
  /\ lk' = [lk EXCEPT
              ![l].pc = "done", ![l].out = lk[l].res, ![l].res = NoArtifact,
              ![l].watchFiles = << >>, ![l].stats = << >>, ![l].base = 0,
              ![l].wrote = Wrote(l)]
  /\ UNCHANGED << buildVars, siteVars, mtime, layout, nLookups, nTransforms >>

\* a lookup that drops the entry when transform throws
TransformThrow_Evict(l) ==
  /\ lk[l].pc \in {"transform", "retransform"}
  /\ UNCHANGED objs
  /\ slot' = 0
  /\ lk' = [lk EXCEPT
              ![l].pc = "failed", ![l].res = NoArtifact,
              ![l].watchFiles = << >>, ![l].stats = << >>, ![l].base = 0,
              ![l].wrote = Wrote(l)]
  /\ UNCHANGED << buildVars, siteVars, mtime, layout, nLookups, nTransforms >>

\* plugin.ts lines 165 and 174: transform throws; the lookup rejects
TransformThrow(l) ==
  /\ lk[l].pc \in {"transform", "retransform"}
  /\ UNCHANGED << objs, slot >>
  /\ lk' = [lk EXCEPT
              ![l].pc = "failed", ![l].res = NoArtifact,
              ![l].watchFiles = << >>, ![l].stats = << >>, ![l].base = 0,
              ![l].wrote = Wrote(l)]
  /\ UNCHANGED << buildVars, siteVars, mtime, layout, nLookups, nTransforms >>

\* plugin.ts lines 174-177: the first transform resolves; the files of the
\* result are stat'ed
TransformDone(l) ==
  /\ lk[l].pc = "transform"
  /\ lk' = [lk EXCEPT ![l].pc = "statNew"]
  /\ UNCHANGED << buildVars, siteVars, mtime, layout, objs, slot, nLookups, nTransforms >>

\* plugin.ts lines 175-180: the stats arrive; the entry is stored
StatNewDone(l) ==
  /\ lk[l].pc = "statNew"
  /\ objs' = [objs EXCEPT ![l] =
                [mtimeMs |-> MaxMtimeMs(CollectStats(lk[l].res.watchFiles)),
                 result |-> lk[l].res]]
  /\ slot' = l
  /\ lk' = [lk EXCEPT
              ![l].pc = "done", ![l].out = lk[l].res, ![l].res = NoArtifact,
              ![l].wrote = Wrote(l)]
  /\ UNCHANGED << buildVars, siteVars, mtime, layout, nLookups, nTransforms >>

\* a stylesheet is saved; saving the root may change what it imports
Touch(f, files) ==
  /\ Now < MaxTime
  /\ mtime' = [mtime EXCEPT ![f] = Now + 1]
  /\ layout' = IF f = "A" THEN files ELSE layout
  /\ UNCHANGED << buildVars, siteVars, objs, slot, lk, nLookups, nTransforms >>

\* -------------------------------------------------------------------- Next
\* the dev server: esbdServe never calls the rebuild trigger that
\* incrementalBuild returns, so every rebuild comes from a watch event
NextServe ==
  \/ \E k \in Calls : CloseInputDone(k, FALSE)
  \/ \E k \in Calls : CloseModuleDone(k)
  \/ \E k \in Calls, e \in BOOLEAN : BundlerOk(k, e)
  \/ \E k \in Calls : BundlerThrow(k)
  \/ \E k \in Calls : ParseDone(k)
  \/ \E k \in Calls : HookFail(k)
  \/ \E k \in Calls, f \in Files : WriteDone(k, f)
  \/ \E k \in Calls, f \in Files : WriteFail(k, f)
  \/ \E k \in Calls : MessageDone(k)
  \/ TimerFire
  \/ \E p \in inW.targets : InputEvent(p)
  \/ \E m \in modW.targets : ModuleEvent(m)
  \/ HookResolve(FALSE)
  \/ HookReject
  \/ ChangeWhileBuilding
  \/ Arrive
  \/ Serve

\* incrementalBuild with any caller: the rebuild trigger is public
Next ==
  \/ PublicTrigger
  \/ NextServe

Spec == Init /\ [][Next]_vars

SpecServe == Init /\ [][NextServe]_vars

\* the dev server with watchers whose close() may fail, and its shutdown
\* (esbd-serve.ts line 244)
NextTeardown ==
  \/ NextServe
  \/ \E k \in Calls : CloseInputDone(k, TRUE)
  \/ HookResolve(TRUE)
  \/ \E k \in Calls : CloseFail(k)
  \/ \E fails \in BOOLEAN : DisposeCall(fails)
  \/ \E fails \in BOOLEAN : DisposeInputClosed(fails)
  \/ DisposeFail
  \/ DisposeDone

SpecTeardown == Init /\ [][NextTeardown]_vars

\* the sass plugin on its own: lookups of one key and the files changing
NextCache ==
  \/ \E l \in Lookups : Begin(l)
  \/ \E l \in Lookups : StatDone(l)
  \/ \E l \in Lookups : RetransformDone(l)
  \/ \E l \in Lookups : TransformThrow(l)
  \/ \E l \in Lookups : TransformDone(l)
  \/ \E l \in Lookups : StatNewDone(l)
  \/ \E f \in Sheets, files \in Layouts : Touch(f, files)

InitCache == Init /\ ~livereload

\* the state of the incremental build once the first build has succeeded
\* with the inputs m and the watchers are armed
FirstBuildDone(m) ==
  /\ running = FALSE
  /\ rebuild = 1
  /\ watchedInputs = {}
  /\ watchedModules = {}
  /\ inW = Once(Add(Close(NewWatcher, FALSE), AddedInputs(m, {})))
  /\ modW = Once(Add(Close(NewWatcher, FALSE), AddedModules(m, {})))
  /\ timers = 0
  /\ hooks = 0
  /\ nCalls = 1
  /\ pc = [k \in Calls |-> IF k = 1 THEN "done" ELSE "idle"]
  /\ late = [k \in Calls |-> FALSE]
  /\ meta = m
  /\ errs = [k \in Calls |-> FALSE]
  /\ pendingWrites = [k \in Calls |-> {}]
  /\ written = [k \in Calls |-> {}]
  /\ notified = IF livereload THEN Message(1, FALSE)
                              ELSE [gen |-> 0, errors |-> FALSE]
  /\ req = "none"
  /\ seen = {}
  /\ lastEnd = "ok"
  /\ ret = << BuildResult(1, FALSE, m) >>
  /\ disp = "none"
  /\ released = 0
  /\ missed = FALSE
  /\ armTriggers = 0

\* the server listens once incrementalBuild has returned (esbd-serve.ts
\* lines 136 and 185-231); it is followed here from the first successful
\* build on, with no file changing
InitRequest ==
  /\ livereload \in BOOLEAN
  /\ FirstBuildDone({PathA, PathPX, PathPY})
  /\ mtime = [f \in Sheets |-> 0]
  /\ layout = << "A", "B" >>
  /\ objs = [l \in Lookups |-> NoEntry]
  /\ slot = 0
  /\ lk = [l \in Lookups |-> IdleLookup]
  /\ nLookups = 0
  /\ nTransforms = 0
  /\ site \in Sites
  /\ rq = NoRequest

NextRequest ==
  \/ \E m \in Methods, p \in UrlPaths : Request(m, p)
  \/ WaitDone
  \/ ServedirLookup
  \/ OutdirLookup
  \/ EndRequest

SpecRequest == InitRequest /\ [][NextRequest]_vars

SpecCache == InitCache /\ [][NextCache]_vars

\* ------------------------------------------------------------------ claims
\* the controller is at rest: no call of triggerBuild is under way, no timer
\* and no watch-event hook is pending
AtRest ==
  /\ ~running
  /\ \A k \in Calls : pc[k] \in {"idle", "done"}
  /\ timers = 0
  /\ hooks = 0

\* the targets the metafile inputs stand for
LeafTargets(inputs) == AddedInputs(inputs, {})
PackageTargets(inputs) == AddedModules(inputs, {})

\* the calls a request arriving now has to wait for
Awaited == IF req = "waiting" THEN seen ELSE { k \in Calls : InFlight(k) }

\* the request is let through to static resolution in this step
Released == req # "released" /\ req' = "released"

\* C1: at most one bundler invocation is in flight in every reachable state.
C1_SingleBundlerInFlight ==
  Cardinality({ k \in Calls : pc[k] = "bundling" }) <= 1

\* C2: a public call of the rebuild trigger made while a build is in flight
\* never invokes the bundler itself (it joins the build in flight).
C2_LateCallInvokesNothing ==
  \A k \in Calls : late[k] => ~InFlight(k)

\* C3: a change that arrived while a build was in flight and the watchers
\* were closed is followed by a bundler invocation: the controller never
\* comes to rest with a change that no bundler invocation has read.
C3_NoLostEdit ==
  ~(AtRest /\ missed)

\* C4: after a successful generation the input watcher watches exactly the
\* leaf targets of that generation's metafile and the module watcher exactly
\* its package targets.
C4_WatchSetIsManifest ==
  (lastEnd = "ok" /\ ~running) =>
     /\ inW.targets = LeafTargets(meta)
     /\ modW.targets = PackageTargets(meta)

\* C5: no listener is armed on either watcher while a bundler invocation or
\* a post-build hook is in flight.
C5_NoListenerWhileBuilding ==
  (\E k \in Calls : InFlight(k)) => (inW.listeners = 0 /\ modW.listeners = 0)

\* C6: once the controller is at rest after a failed build that followed a
\* successful generation, the watchers are armed and can report a change.
C6_WatchedAfterFailure ==
  (AtRest /\ lastEnd = "fail" /\ rebuild # 0) =>
     /\ inW.listeners > 0
     /\ modW.listeners > 0
     /\ \E p \in LeafTargets(meta) : Emits(inW, p)

\* C7: wait() resolves only when no build is in flight, and when it was
\* called during a build only after the builds then in flight have returned.
C7_WaitResolvesAfterBuild ==
  [][Released =>
       /\ \A k \in Calls : pc'[k] \notin ({"bundling"} \cup InHook)
       /\ \A k \in Awaited : pc'[k] = "done"]_vars

\* C8: a request that arrives during a build is released to static
\* resolution only after the writes of that build's hook have been applied.
C8_ReleasedAfterWrites ==
  [][Released =>
       \A k \in Awaited : pc'[k] = "done" /\ pendingWrites'[k] = {}]_vars

\* C9: notify() is called for a generation without errors only after all its
\* output files and HTML templates have been written.
C9_NotifyAfterWrites ==
  [][(notified' # notified /\ ~notified'.errors) =>
       /\ written[notified'.gen] = Files
       /\ pendingWrites[notified'.gen] = {}]_vars

\* C9 witness: notify() has been called for a generation without errors
C9_Witness == notified.gen # 0 /\ ~notified.errors

\* C10: between one arming of the watchers and the next, watch events
\* trigger at most one rebuild.
C10_OneTriggerPerArming ==
  armTriggers <= 1

\* the bundler invocation of call k fails in this step
BundlerFails(k) == pc[k] = "bundling" /\ pc'[k] = "done" /\ lastEnd' = "fail"

\* C11: when the bundler invocation fails, triggerBuild does not reject; it
\* resolves with the empty result (no errors, no warnings, no inputs, no
\* output files) carrying the handle it had, and that handle stays the one
\* kept for the next generation.
C11_FailureReturnsNull ==
  [][\A k \in Calls :
       /\ pc[k] = "bundling" => pc'[k] # "rejected"
       /\ BundlerFails(k) =>
            /\ ret' = << [errors |-> {}, warnings |-> {}, inputs |-> {},
                          outputFiles |-> {}, rebuild |-> rebuild] >>
            /\ rebuild' = rebuild]_vars

\* C11 witness: a bundler invocation has failed after a successful
\* generation, whose handle is still the one kept
C11_Witness ==
  /\ lastEnd = "fail"
  /\ rebuild # 0
  /\ ret = << CatchReturns(rebuild) >>

\* dispose() settles in this step
DisposeSettles == disp \notin {"done", "rejected"} /\ disp' \in {"done", "rejected"}

\* C12: dispose() does not throw, and when it settles both watchers are
\* closed, also when releasing one of the three resources fails or when no
\* generation ever succeeded.
C12_DisposeBestEffort ==
  [][DisposeSettles => (disp' = "done" /\ inW'.closed /\ modW'.closed)]_vars

\* C13: after a failure to close a watcher during a rebuild the controller
\* still returns to Idle with the watchers re-armed: once nothing is pending
\* any more, running is false and both watchers have their listener.
C13_IdleAfterCloseFailure ==
  ( /\ \E k \in Calls : pc[k] = "rejected"
    /\ \A k \in Calls : pc[k] \in {"idle", "done", "rejected"}
    /\ timers = 0 /\ hooks = 0
    /\ disp = "none" )
  => (~running /\ inW.listeners > 0 /\ modW.listeners > 0)

\* no file the artifact was computed from has been modified since
Unmodified(art) ==
  \A i \in 1..Len(art.watchFiles) : mtime[art.watchFiles[i]] = art.read[i]

\* the lookup gets its stats in this step and decides
Decides(l) == lk[l].pc = "stat" /\ lk'[l].pc # "stat"

\* the lookup was made after the artifact now in the entry was stored
MadeAfterStore(l) == objs[lk[l].held].result.id = lk[l].base

\* C14: a lookup made after the entry was stored, with no dependency file
\* modified since the stored artifact was computed, returns that artifact
\* and does not call transform.
C14_FreshHitNoTransform ==
  [][\A l \in Lookups :
       (Decides(l) /\ MadeAfterStore(l)
                   /\ Unmodified(objs[lk[l].held].result)) =>
          /\ lk'[l].pc = "done"
          /\ lk'[l].out = objs[lk[l].held].result
          /\ nTransforms' = nTransforms]_vars

\* C15: a lookup that finds the first file of the entry newer than the
\* freshness mark calls transform exactly once, with that first file as
\* root, and installs a mark that is at least the modification time the
\* lookup found for every file of the entry.
C15_StaleRecomputedOnce ==
  [][\A l \in Lookups :
       /\ (Decides(l) /\ mtime[lk[l].watchFiles[1]] > objs[lk[l].held].mtimeMs) =>
             /\ lk'[l].pc = "retransform"
             /\ nTransforms' = nTransforms + 1
             /\ lk'[l].res.root = lk[l].watchFiles[1]
       /\ (lk[l].pc = "retransform" /\ lk'[l].pc = "done") =>
             /\ lk'[l].calls = 1
             /\ nTransforms' = nTransforms
             /\ objs'[lk[l].held].result = lk[l].res
             /\ \A i \in 1..Len(lk[l].stats) :
                   objs'[lk[l].held].mtimeMs >= lk[l].stats[i]]_vars

\* C15 witness: a lookup has recomputed a stale entry of two files, the
\* second of them newer than the first
C15_Witness ==
  \E l \in Lookups :
    /\ lk[l].pc = "done" /\ lk[l].held # 0 /\ lk[l].calls = 1
    /\ objs[lk[l].held].mtimeMs = mtime["B"]
    /\ mtime["B"] > mtime["A"]

\* C16: when transform throws, the lookup rejects and has not changed the
\* cache: the entry is as it was, or still absent.
C16_ThrowLeavesCache ==
  [][\A l \in Lookups :
       (lk[l].pc # "failed" /\ lk'[l].pc = "failed") =>
          (objs' = objs /\ slot' = slot /\ ~lk'[l].wrote)]_vars

\* C16 witness: the recomputation of a stale entry has thrown
C16_Witness ==
  \E l \in Lookups : lk[l].pc = "failed" /\ lk[l].held # 0 /\ slot # 0

\* a response to a request that can be looked up has gone out
Answered == rq.stage = "sent" /\ rq.from # "livereload" /\ Readable(rq.method)

\* the places asked in vain when nothing matched
AllTried(first, second) ==
  IF site.servedir THEN << first, second >> ELSE << "outdir" >>

\* C17: a request is resolved against the output directory first, then
\* against the secondary static root if there is one, then by the rewrite
\* to the HTML entry's output if rewrite is on, else with 404.
C17_OutputDirFirst ==
  Answered =>
    /\ rq.from = "outdir" => rq.tried = << >>
    /\ rq.from = "servedir" => rq.tried = << "outdir" >>
    /\ rq.from \in {"index", "notfound"} =>
         /\ rq.tried = AllTried("outdir", "servedir")
         /\ (rq.from = "index") = site.rewrite
    /\ rq.status = (IF rq.from = "notfound" THEN 404 ELSE 200)

\* C17 as amended: a GET or HEAD request is resolved against the secondary
\* static root first if there is one, then against the output directory,
\* then by the rewrite if rewrite is on, else with 404; any other method is
\* answered 405 by the output directory's handler.
C17_ServedirFirst ==
  /\ Answered =>
       /\ rq.from = "servedir" =>
            (rq.tried = << >> /\ rq.path \in site.serveFiles)
       /\ rq.from = "outdir" =>
            /\ rq.tried = (IF site.servedir THEN << "servedir" >> ELSE << >>)
            /\ rq.path \in site.outFiles \ site.serveFiles
       /\ rq.from \in {"index", "notfound"} =>
            /\ rq.tried = AllTried("servedir", "outdir")
            /\ rq.path \notin site.outFiles \cup site.serveFiles
            /\ (rq.from = "index") = site.rewrite
       /\ rq.status = (IF rq.from = "notfound" THEN 404 ELSE 200)
  /\ (rq.stage = "sent" /\ rq.from # "livereload" /\ ~Readable(rq.method)) =>
       (rq.from = "outdir" /\ rq.status = 405)

\* C17 witness: a file that is in both places has been served from the
\* secondary static root
C17_Witness ==
  Answered /\ rq.from = "servedir" /\ rq.path \in site.outFiles

\* C18: with livereload on, every build attempt that ends with build
\* errors, whether the bundler throws or returns them in its result, has
\* notified the clients of its generation when it returns.
C18_FailureNotified ==
  [][\A k \in Calls :
       ( /\ livereload
         /\ pc[k] # "done" /\ pc'[k] = "done"
         /\ pc[k] = "bundling" \/ errs[k] )
       => notified' = Message(k, TRUE)]_vars

\* call k starts writing files in this step
StartsWrites(k) == ~(pendingWrites'[k] \subseteq pendingWrites[k])

\* C19: a build whose bundler throws or reports errors writes no output
\* file and no template: writes are started only by the hook of a call
\* whose bundler returned a result without errors, and such a call has no
\* write pending and has written nothing.
C19_FailedBuildWritesNothing ==
  [][\A k \in Calls :
       /\ StartsWrites(k) => (pc[k] = "parse" /\ ~errs[k])
       /\ (pc'[k] = "parse" /\ pc[k] # "parse") =>
            (pc[k] = "bundling" /\ ~errs'[k])
       /\ (BundlerFails(k) \/ errs'[k]) =>
            (pendingWrites'[k] = {} /\ written'[k] = {})]_vars

\* C19 witness: a rebuild has ended with build errors
C19_Witness ==
  Len(ret) = 1 /\ ret[1].errors # {} /\ ret[1].rebuild > 1

\* C20: until the first build has settled no listener is armed, no timer
\* and no watch-event hook is pending, no other call of triggerBuild has
\* been made, and the caller of incrementalBuild has nothing in hand: no
\* request is served and dispose() is not called.
C20_FirstBuildFirst ==
  pc[1] # "done" =>
    /\ pc[1] \in {"closeInput", "closeModule", "bundling"} \cup InHook
    /\ nCalls = 1
    /\ inW.listeners = 0 /\ modW.listeners = 0
    /\ timers = 0 /\ hooks = 0
    /\ req = "none" /\ rq.stage = "none" /\ disp = "none"

\* C20 witness: the bundler invocation of the first build is in flight
C20_Witness == pc[1] = "bundling" /\ nCalls = 1

\* the input key without its scheme tag: the text after the first colon
DropScheme(key) ==
  IF IndexOf(key, <<":">>) >= 0
    THEN SubSeq(key, IndexOf(key, <<":">>) + 2, Len(key))
    ELSE key

\* the prefix of the path that ends with the first segment after the marker
PackageOf(path) ==
  LET from == IndexOf(path, NodeModules) + Len(NodeModules) + 1
      slash == IndexOfFrom(path, <<"/">>, from)
  IN IF slash < 0 THEN path ELSE SliceTo(path, slash)

\* call k returns a generation in this step
Installs(k) == pc[k] # "done" /\ pc'[k] = "done" /\ lastEnd' = "ok"

\* C21: when a generation is installed, every input path of its metafile,
\* its scheme tag dropped, is registered: a path with the node_modules
\* marker as the package target that ends with the first segment after the
\* marker, every other path as a leaf target of its own.
C21_EveryInputRegistered ==
  [][\A k \in Calls :
       Installs(k) =>
         \A key \in meta' :
           IF IsDependency(DropScheme(key))
             THEN PackageOf(DropScheme(key)) \in modW'.targets
             ELSE DropScheme(key) \in inW'.targets]_vars

\* lookup l writes the cache in this step
Installing(l) == lk[l].pc \in {"retransform", "statNew"} /\ lk'[l].pc = "done"

\* the entry lookup l writes
EntryOf(l) == IF lk[l].pc = "retransform" THEN lk[l].held ELSE l

\* m is the latest of the modification times
IsLatest(m, stats) ==
  /\ \A i \in 1..Len(stats) : stats[i] <= m
  /\ Len(stats) = 0 => m = 0
  /\ Len(stats) > 0 => \E i \in 1..Len(stats) : stats[i] = m

\* the stats lookup l takes its freshness mark from
MarkStats(l) ==
  IF lk[l].pc = "retransform" THEN lk[l].stats
                               ELSE CollectStats(lk[l].res.watchFiles)

\* C22: whatever the interleaving of lookups of one key, an entry changes
\* artifact and freshness mark together: a step that replaces the artifact
\* of an entry is the step of one lookup that also writes the mark that
\* lookup computed, and no step changes the mark of an entry and leaves its
\* artifact, so no lookup can read or return one without the other.
C22_ReplacementAtomic ==
  [][\A e \in Lookups :
       /\ objs'[e].result # objs[e].result =>
            \E l \in Lookups :
              /\ Installing(l) /\ EntryOf(l) = e
              /\ objs'[e].result = lk[l].res
              /\ IsLatest(objs'[e].mtimeMs, MarkStats(l))
       /\ objs'[e].mtimeMs # objs[e].mtimeMs =>
            objs'[e].result # objs[e].result]_vars

\* C22 witness: a lookup has replaced a stale entry while another lookup
\* that had read the same entry was still under way
C22_Witness ==
  \E l, o \in Lookups :
    /\ l # o
    /\ lk[l].pc = "done" /\ lk[l].held # 0 /\ lk[l].calls = 1
    /\ lk[o].pc \in {"stat", "retransform"} /\ lk[o].held = lk[l].held

\* the bundler is invoked for call k in this step
Invokes(k) == pc[k] # "bundling" /\ pc'[k] = "bundling"

\* C23: a build that has started settles before the system reacts to
\* further changes. The part stated here: while the bundler invocation or
\* the hook of a build is under way, no call of triggerBuild made for a
\* watch event invokes the bundler.
C23_NoInvocationBeforeSettled ==
  [][\A k \in Calls \ {1} :
       Invokes(k) => \A j \in Calls \ {k} : ~InFlight(j)]_vars

\* lookup l returns the stored artifact without recomputing it
Hits(l) == Decides(l) /\ lk'[l].pc = "done"

\* C24: a cache hit never returns an artifact older than its dependencies:
\* an artifact returned without recomputation was computed from the
\* contents its dependency files have at their current modification times.
C24_HitNeverStale ==
  [][\A l \in Lookups : Hits(l) => Unmodified(lk'[l].out)]_vars

\* a pending watch-event hook fails in this step: it is gone and no call of
\* triggerBuild was made for it
HookFails == hooks' = hooks - 1 /\ nCalls' = nCalls

\* the watcher reports changes and nobody listens
Deaf(w) == ~w.closed /\ w.targets # {} /\ w.listeners = 0

\* C25: when the watch-event hook of an event fails, the system does not
\* stay unwatched: if this leaves the controller at rest, with no call, no
\* timer and no other hook pending, every watcher that watches files has
\* its listener, so that a later change triggers a rebuild.
C25_WatchedAfterHookFailure ==
  [][(HookFails /\ AtRest') => (~Deaf(inW') /\ ~Deaf(modW'))]_vars

\* the watcher is open and has a listener for the changes it reports
Listening(w) == ~w.closed /\ w.listeners > 0

\* C26: after dispose() has completed no bundler invocation starts and no
\* watcher is listening, whatever was pending when dispose() was called: a
\* build in flight, a watch-event hook or an arming timer.
C26_QuietAfterDispose ==
  [][disp = "done" =>
       /\ \A k \in Calls : ~Invokes(k)
       /\ ~Listening(inW') /\ ~Listening(modW')]_vars

TypeOK ==
  /\ running \in BOOLEAN
  /\ rebuild \in 0..MaxCalls
  /\ watchedInputs = {}
  /\ watchedModules = {}
  /\ inW.closed \in BOOLEAN /\ inW.listeners \in 0..MaxCalls
  /\ modW.closed \in BOOLEAN /\ modW.listeners \in 0..MaxCalls
  /\ inW.closeErr \in BOOLEAN /\ (inW.closeErr => inW.closed)
  /\ modW.closeErr \in BOOLEAN /\ (modW.closeErr => modW.closed)
  /\ inW.closed => inW.targets = {}
  /\ modW.closed => modW.targets = {}
  /\ timers \in 0..MaxCalls
  /\ hooks \in 0..(2 * MaxCalls)
  /\ nCalls \in Calls
  /\ pc \in [Calls -> {"idle", "closeInput", "closeInputErr", "closeModule",
                       "closeModuleErr", "rejected", "bundling", "parse",
                       "write", "message", "done"}]
  /\ \A k \in Calls : pc[k] = "idle" <=> k > nCalls
  /\ late \in [Calls -> BOOLEAN]
  /\ errs \in [Calls -> BOOLEAN]
  /\ meta \in Manifests \cup {{}}
  /\ pendingWrites \in [Calls -> SUBSET Files]
  /\ written \in [Calls -> SUBSET Files]
  /\ notified.gen \in 0..MaxCalls
  /\ livereload \in BOOLEAN
  /\ req \in {"none", "waiting", "released"}
  /\ seen \subseteq Calls
  /\ lastEnd \in {"none", "ok", "fail"}
  /\ Len(ret) = (IF lastEnd = "none" THEN 0 ELSE 1)
  /\ disp \in {"none", "closeInput", "closeInputErr", "closeModule",
               "closeModuleErr", "rejected", "done"}
  /\ released \in 0..MaxCalls
  /\ missed \in BOOLEAN
  /\ armTriggers \in 0..MaxCalls
  /\ mtime \in [Sheets -> 0..MaxTime]
  /\ layout \in Layouts
  /\ slot \in 0..MaxLookups
  /\ nLookups \in 0..MaxLookups
  /\ nTransforms \in 0..MaxLookups
  /\ \A l \in Lookups :
       /\ lk[l].pc \in {"idle", "stat", "retransform", "transform", "statNew",
                        "done", "failed"}
       /\ lk[l].pc = "idle" <=> l > nLookups
       /\ lk[l].held \in 0..MaxLookups
       /\ lk[l].calls \in {0, 1}
       /\ lk[l].pc = "done" => lk[l].out # NoArtifact
       /\ objs[l].mtimeMs \in 0..MaxTime
  /\ site \in Sites
  /\ rq.stage \in {"none", "wait", "servedir", "outdir", "sent"}
  /\ rq.status \in {0, 200, 404, 405}

====
